---------------------------- MODULE Spec2Model ----------------------------
(***************************************************************************)
(* Session and content-delivery layer of the logical-reasoning practice    *)
(* client: the ApiService singleton (token store, request gateway,         *)
(* fallback resolver, facade operations), the practice controller of App   *)
(* and the review controller of ReviewScreen.                              *)
(*                                                                         *)
(* JavaScript runs one task at a time; an async function runs without      *)
(* interruption up to its next await of network or storage I/O.  Every     *)
(* action below is one such uninterrupted run: a call up to its first      *)
(* await, or the resumption after an I/O completion up to the next await   *)
(* or to the return, the caller's continuation included.                   *)
(***************************************************************************)
EXTENDS Integers, Sequences, FiniteSets, TLC

(* ------------------------------ bounds -------------------------------- *)
NumCreds == 2
MaxTasks == 2
MaxMissed == 2
SessionMissed == 1

(* --------------------------- basic values ----------------------------- *)
Null == 0
Creds == 1..NumCreds
Unauthorized == 401
OtherStatuses == {400, 409, 500}
Categories == {"strengthen", "weaken", "assumption", "flaw"}
\* the strings generateQuestion is called with: request.type is typed as a
\* category, but App.navigateToQuestion passes any string (`as any`)
RequestedTypes == Categories \cup {"other", "constructor"}
TaskIds == 1..MaxTasks

VARIABLES
  token,      \* ApiService.token, the cached credential (Null or a credential)
  stored,     \* the AsyncStorage entry 'auth_token' (Null when absent)
  loadPc,     \* position of the loadToken() started by the constructor
  loadVal,    \* what its getItem read
  tasks,      \* the Facade calls in flight, by slot
  prev,       \* bookkeeping read by the properties only.  Of the calls the
              \* sequential client has completed after the constructor's
              \* load finished: the last one saved a credential (saved);
              \* one was answered 401 and none has saved since (cleared).
              \* Of the step just taken, when it ended a call a screen's
              \* handler awaited: the handler (caller), the outcome of the
              \* call's fetch (net), whether it returned a value (ok)
  app,        \* the state of the App component (practice controller)
  review,     \* the state of the mounted ReviewScreen
  qscreen     \* the state of the QuestionScreen component

uiVars == <<app, review, qscreen, prev>>
apiVars == <<token, stored, loadPc, loadVal>>
vars == <<token, stored, loadPc, loadVal, tasks, prev, app, review, qscreen>>

(* ------------------------- results and errors ------------------------- *)
NoErr == [kind |-> "none", status |-> 0]
AuthenticationFailed == [kind |-> "AuthenticationFailed", status |-> 0]
HttpError(s) == [kind |-> "HttpError", status |-> s]
\* what fetch() or response.json() rejected with, rethrown as it is
TransportError == [kind |-> "TransportError", status |-> 0]

NoVal == [v |-> "none"]
Ok(val) == [ok |-> TRUE, val |-> val, err |-> NoErr]
Fail(err) == [ok |-> FALSE, val |-> NoVal, err |-> err]
NoRes == [ok |-> FALSE, val |-> NoVal, err |-> NoErr]

\* outcomes of one fetch: k is "ok" (2xx, body parsed), "body" (2xx, body
\* unreadable), "status" (non-2xx status s), "transport" (fetch rejected)
NoOutcome == [k |-> "none", s |-> 0]
OkOutcome == [k |-> "ok", s |-> 200]
BodyOutcome == [k |-> "body", s |-> 200]
TransportOutcome == [k |-> "transport", s |-> 0]
StatusOutcome(s) == [k |-> "status", s |-> s]
\* the step ends no call of a screen's handler
Forget(p) == [p EXCEPT !.caller = "none", !.net = NoOutcome, !.ok = FALSE]
Quiet ==
  /\ UNCHANGED <<app, review, qscreen>>
  /\ prev' = Forget(prev)

FailureOutcomes ==
  {BodyOutcome, TransportOutcome} \cup
  {StatusOutcome(s) : s \in {Unauthorized} \cup OtherStatuses}

(* ----------------------- Content Fallback Resolver -------------------- *)
sampleQuestions ==
  [strengthen |-> [id |-> "sample-strengthen-1", type |-> "strengthen",
                   correct_answer |-> "B"],
   weaken     |-> [id |-> "sample-weaken-1", type |-> "weaken",
                   correct_answer |-> "C"],
   assumption |-> [id |-> "sample-assumption-1", type |-> "assumption",
                   correct_answer |-> "D"],
   flaw       |-> [id |-> "sample-flaw-1", type |-> "flaw",
                   correct_answer |-> "E"]]

\* sampleQuestions is a plain object: sampleQuestions[type] also finds the
\* members every object inherits from Object.prototype, such as
\* 'constructor'; these are functions, truthy, and none of a Question's
\* fields is defined on them
InheritedKeys == {"constructor"}
InheritedMember ==
  [id |-> "undefined", type |-> "undefined", correct_answer |-> "undefined"]

\* sampleQuestions[type]: the own entry, an inherited member, or undefined
Lookup(type) ==
  CASE type \in DOMAIN sampleQuestions -> <<TRUE, sampleQuestions[type]>>
    [] type \in InheritedKeys -> <<TRUE, InheritedMember>>
    [] OTHER -> <<FALSE, InheritedMember>>

\* variant: the requested type is ignored
getSampleQuestionIgnoresType(type) == sampleQuestions.strengthen

\* sampleQuestions[type] || sampleQuestions.strengthen
getSampleQuestion(type) ==
  IF Lookup(type)[1] THEN Lookup(type)[2] ELSE sampleQuestions.strengthen

(* ------------------------------ defaults ------------------------------ *)
ZeroByType == [strengthen |-> 0, weaken |-> 0, assumption |-> 0, flaw |-> 0]
FallbackStats ==
  [questionsAnswered |-> 0, accuracy |-> 0, currentStreak |-> 0,
   longestStreak |-> 0, accuracyByType |-> ZeroByType, correctAnswers |-> 0]

(* ------------------------- backend responses -------------------------- *)
ServerIds == {"q1"}
MissedIds == <<"m1", "m2", "m3", "m4">>
ServerQuestions(type) ==
  {[id |-> i, type |-> type, correct_answer |-> "A"] : i \in ServerIds}
MissedList(n) ==
  [k \in 1..n |-> [id |-> MissedIds[k], type |-> "weaken", correct_answer |-> "C"]]
ServerStats ==
  [questionsAnswered |-> 4, accuracy |-> 50, currentStreak |-> 1,
   longestStreak |-> 2, accuracyByType |-> [ZeroByType EXCEPT !.weaken = 50],
   correctAnswers |-> 2]

\* the JSON bodies the backend may answer a successful call with
Bodies(op, arg) ==
  CASE op \in {"login", "register"} ->
         {[user |-> 1, token |-> c] : c \in Creds}
    [] op \in {"getProfile", "checkAuthStatus", "updateProfile"} ->
         {[user |-> 1]}
    [] op = "generateQuestion" -> ServerQuestions(arg)
    [] op = "submitAnswer" -> {[correct |-> b] : b \in BOOLEAN}
    [] op = "getUserStats" -> {ServerStats}
    [] op = "getMissedQuestions" -> {MissedList(n) : n \in 0..MaxMissed}
    [] OTHER -> {NoVal}

(* ------------------------------- tasks -------------------------------- *)
\* One Facade call.  pc: "fetch" (awaiting fetch, line 129), "rm401"
\* (request's removeToken awaiting removeItem, line 134), "rmProfile"
\* (getProfile's, line 186), "rmCheck" (checkAuthStatus's, line 101),
\* "rmLogout" (logout's, line 177), "save" (saveToken awaiting setItem,
\* line 70), "returned".  hdr is the Authorization credential the request
\* was built with; res holds the pending, then the final, result.
\* Bookkeeping read by the properties only: net (the outcome of the call's
\* fetch), nfetch (fetches issued), nrm (removeToken calls), sfail (a
\* storage primitive rejected during the call), ld (the constructor's load
\* had finished when the call began).
\* caller is the handler that awaits the call, cap what the closures it
\* creates afterwards have captured from its render.
NoUser == -1
GuestId == 0
NoCap == [type |-> "", user |-> NoUser, idx |-> 0, len |-> 0]
FreeTask ==
  [op |-> "none", arg |-> "", caller |-> "none", pc |-> "free",
   hdr |-> [present |-> FALSE, scheme |-> "", cred |-> Null, contentType |-> ""],
   net |-> NoOutcome, res |-> NoRes, nfetch |-> 0, nrm |-> 0,
   sfail |-> FALSE, ld |-> FALSE, cap |-> NoCap]

isAuthenticated(tok) == tok # Null

\* the Authorization header request() builds from the cached token
NoHeader == [present |-> FALSE, scheme |-> "", cred |-> Null, contentType |-> ""]

\* variant: the header value is the credential alone
AuthorizationHeaderBare(tok) ==
  IF tok # Null
    THEN [NoHeader EXCEPT !.present = TRUE, !.cred = tok]
    ELSE NoHeader

AuthorizationHeader(tok) ==
  IF tok # Null
    THEN [NoHeader EXCEPT !.present = TRUE, !.scheme = "Bearer", !.cred = tok]
    ELSE NoHeader

\* the headers of the config (lines 119-126): Content-Type, then the
\* Authorization header; no method of the Facade passes headers of its own
Headers(tok) ==
  [AuthorizationHeader(tok) EXCEPT !.contentType = "application/json"]

\* request(): build the config from the cached token and call fetch
Request(t, tok) ==
  [t EXCEPT !.pc = "fetch", !.hdr = Headers(tok),
            !.nfetch = @ + 1]

\* removeToken() up to its await; the caller sets token' = Null
Removing(t, pc) == [t EXCEPT !.pc = pc, !.nrm = @ + 1]

\* a Facade operation from its call to its first await
NewTask(op, arg, caller) ==
  LET t == [FreeTask EXCEPT !.op = op, !.arg = arg, !.caller = caller,
                            !.ld = (loadPc = "done")]
  IN CASE op = "logout" /\ ~isAuthenticated(token) ->
            Removing([t EXCEPT !.res = Ok(NoVal)], "rmLogout")
       [] op = "checkAuthStatus" /\ ~isAuthenticated(token) ->
            [t EXCEPT !.pc = "returned", !.res = Ok([value |-> FALSE])]
       [] OTHER -> Request(t, token)

FreeSlots(ts) == {i \in TaskIds : ts[i].pc = "free"}
Lowest(S) == CHOOSE i \in S : \A j \in S : i <= j

(* --------------------------- Request Gateway -------------------------- *)
\* variant: 401 is reported like any other status
ErrorOfStatusOnly(o) ==
  IF o.k = "status" THEN HttpError(o.s) ELSE TransportError

\* the error request() throws for a fetch outcome that is a failure
ErrorOf(o) ==
  CASE o.k = "status" /\ o.s = Unauthorized -> AuthenticationFailed
    [] o.k = "status" -> HttpError(o.s)
    [] OTHER -> TransportError

\* variants: the token is never removed; it is removed on every status
ClearsNothing(o) == FALSE
ClearsOnAnyStatus(o) == o.k = "status"

\* request() removes the token for this outcome
ClearsCredential(o) == o.k = "status" /\ o.s = Unauthorized

\* variant: the message of the error thrown for a 401 holds the status
MessageIncludesStatus(err, code) ==
  \/ err.kind = "AuthenticationFailed" /\ code = Unauthorized
  \/ err.kind = "HttpError" /\ err.status = code

\* error.message.includes('<code>') for a three-digit code: the messages
\* are 'Authentication failed', 'HTTP error! status: <s>' and the
\* platform's own text
MessageIncludes(err, code) ==
  /\ err.kind = "HttpError"
  /\ \E d \in {1, 10} : (err.status \div d) % 1000 = code

(* ------------------------------ screens ------------------------------- *)
\* App's state (App.tsx lines 20-39), with the result alert
\* App.handleSubmit schedules (alert: "timer" while the 500 ms run, then
\* "shown", with what its buttons' closures captured) and the notice an
\* Alert.alert with no handler shows (notice).
NoQuestion == [id |-> "", type |-> "", correct_answer |-> ""]
NoAnswer == ""
Answers == {"A", "B"}
NoAlert == [st |-> "none", type |-> "", user |-> NoUser]
InitialStats ==
  [questionsAnswered |-> 0, accuracy |-> 0, currentStreak |-> 0,
   longestStreak |-> 0, accuracyByType |-> ZeroByType, correctAnswers |-> 0]
AppInit ==
  [currentScreen |-> "loading", currentUser |-> NoUser,
   currentQuestion |-> NoQuestion, selectedAnswer |-> NoAnswer,
   showExplanation |-> FALSE, loading |-> FALSE, stats |-> InitialStats,
   alert |-> NoAlert, notice |-> "none"]

\* ReviewScreen's state at mount (HomeScreen.tsx lines 262-268), with the
\* result alert of its handleSubmit (alert) and the one of a handleSubmit
\* that succeeded while the timer of that alert was running (queued)
NoReviewAlert == [st |-> "none", idx |-> 0, len |-> 0]
ReviewInit ==
  [mounted |-> FALSE, reviewQuestions |-> <<>>, currentQuestionIndex |-> 0,
   selectedAnswer |-> NoAnswer, showExplanation |-> FALSE, loading |-> TRUE,
   reviewComplete |-> FALSE, submitting |-> FALSE, alert |-> NoReviewAlert,
   queued |-> NoReviewAlert]

\* The handlers below are functions of U = [a: App's state, r:
\* ReviewScreen's state, ts: the calls in flight].
Spawn(U, op, arg, caller, cap) ==
  [U EXCEPT !.ts[Lowest(FreeSlots(U.ts))] =
              [NewTask(op, arg, caller) EXCEPT !.cap = cap]]

\* the calls of an unmounted screen go on; its setState calls do nothing
Orphan(ts, callers, to) ==
  [i \in TaskIds |->
     IF ts[i].caller \in callers THEN [ts[i] EXCEPT !.caller = to] ELSE ts[i]]

\* setCurrentScreen: ReviewScreen unmounts when another screen is rendered
\* (a result alert it has scheduled still shows, its button does nothing)
\* and mounts, with fresh state, when its own is; its mount effect calls
\* loadReviewQuestions (HomeScreen.tsx lines 275-284).  AuthScreen unmounts
\* likewise: a handleSubmit of it that is awaiting goes on, and the next
\* AuthScreen starts with its own loading flag
setCurrentScreen(U, screen) ==
  LET old == U.a.currentScreen
      U2 == [U EXCEPT !.a.currentScreen = screen,
                      !.ts = IF old = "auth" /\ screen # "auth"
                               THEN Orphan(@, {"Auth.handleSubmit"}, "Auth.unmounted")
                               ELSE @]
      U3 == IF old = "review" /\ screen # "review"
              THEN [U2 EXCEPT
                      !.ts = Orphan(@, {"Review.loadReviewQuestions",
                                        "Review.handleSubmit"}, "Review.unmounted"),
                      !.r = ReviewInit,
                      !.a.notice = IF U2.r.alert.st # "none"
                                     THEN "Review result" ELSE @]
              ELSE U2
  IN IF old # "review" /\ screen = "review"
       THEN Spawn([U3 EXCEPT !.r = [ReviewInit EXCEPT !.mounted = TRUE]],
                  "getMissedQuestions", "", "Review.loadReviewQuestions", NoCap)
       ELSE U3

\* App.loadUserStats up to its await (line 111)
loadUserStats(U) == Spawn(U, "getUserStats", "", "App.loadUserStats", NoCap)

\* App.handleAuthSuccess (lines 69-75)
handleAuthSuccess(U, user) ==
  LET U1 == setCurrentScreen([U EXCEPT !.a.currentUser = user], "home")
  IN IF user # GuestId THEN loadUserStats(U1) ELSE U1

\* variant: App.navigateToQuestion without the reset of the selection and of
\* the explanation flag
navigateToQuestionKeeps(U, questionType) ==
  Spawn(setCurrentScreen([U EXCEPT !.a.loading = TRUE], "question"),
        "generateQuestion", questionType, "App.navigateToQuestion", NoCap)

\* App.navigateToQuestion up to its await (lines 130-138)
navigateToQuestion(U, questionType) ==
  Spawn(setCurrentScreen([U EXCEPT !.a.loading = TRUE,
                                   !.a.selectedAnswer = NoAnswer,
                                   !.a.showExplanation = FALSE], "question"),
        "generateQuestion", questionType, "App.navigateToQuestion", NoCap)

\* App.navigateToHome (lines 148-156); currentUser is the one of the render
\* whose closure is called
navigateToHome(U, currentUser) ==
  LET U1 == setCurrentScreen([U EXCEPT !.a.currentQuestion = NoQuestion,
                                       !.a.selectedAnswer = NoAnswer,
                                       !.a.showExplanation = FALSE], "home")
  IN IF currentUser # NoUser /\ currentUser # GuestId
       THEN loadUserStats(U1) ELSE U1

\* the stats App.loadUserStats sets (lines 112-124)
StatsFrom(userStats) ==
  [questionsAnswered |-> userStats.questionsAnswered,
   accuracy |-> userStats.accuracy,
   currentStreak |-> userStats.currentStreak,
   longestStreak |-> userStats.longestStreak,
   accuracyByType |-> userStats.accuracyByType,
   correctAnswers |-> userStats.correctAnswers]

\* QuestionScreen (QuestionScreen.tsx): the question it shows, its state
\* at mount (lines 41-45), with the result alerts its handleSubmit has
\* scheduled (alerts, each with the correct its closure captured; shown:
\* the 500 ms of the first one are over)
sampleQuestion == [id |-> 1, type |-> "strengthen", correctAnswer |-> "A"]
Options == {"A", "B", "C", "D", "E"}
NoCorrect == "null"
QScreenInit ==
  [mounted |-> FALSE, questionType |-> "strengthen",
   selectedAnswer |-> NoAnswer, showExplanation |-> FALSE,
   isCorrect |-> NoCorrect, alerts |-> <<>>, shown |-> FALSE]

\* QuestionScreen.generateNewQuestion (lines 80-86)
generateNewQuestion(q) ==
  IF q.mounted
    THEN [q EXCEPT !.selectedAnswer = NoAnswer, !.showExplanation = FALSE,
                   !.isCorrect = NoCorrect]
    ELSE q

\* navigation.goBack(): the screen is unmounted, the timers it has set go on
goBack(q) ==
  [QScreenInit EXCEPT !.alerts = q.alerts, !.shown = q.shown]

\* variant: App.handleSubmit without its guard
handleSubmitUnguarded(U) ==
  Spawn([U EXCEPT !.a.loading = TRUE], "submitAnswer",
        U.a.currentQuestion.id, "App.handleSubmit",
        [NoCap EXCEPT !.type = U.a.currentQuestion.type,
                      !.user = U.a.currentUser])

\* App.handleSubmit up to its await (lines 167-181); the alert of its
\* guard has no handler
handleSubmit(U) ==
  IF U.a.selectedAnswer = NoAnswer \/ U.a.currentQuestion = NoQuestion
    THEN [U EXCEPT !.a.notice = "Please select an answer"]
    ELSE Spawn([U EXCEPT !.a.loading = TRUE], "submitAnswer",
               U.a.currentQuestion.id, "App.handleSubmit",
               [NoCap EXCEPT !.type = U.a.currentQuestion.type,
                             !.user = U.a.currentUser])

\* reviewQuestions[currentQuestionIndex] (HomeScreen.tsx line 352),
\* undefined beyond the list
ReviewCurrentQuestion(r) ==
  IF r.currentQuestionIndex + 1 \in 1..Len(r.reviewQuestions)
    THEN r.reviewQuestions[r.currentQuestionIndex + 1]
    ELSE NoQuestion

\* ReviewScreen.handleSubmit up to its await (HomeScreen.tsx lines 308-317)
ReviewHandleSubmit(U) ==
  IF U.r.selectedAnswer = NoAnswer \/ ReviewCurrentQuestion(U.r) = NoQuestion
    THEN U
    ELSE Spawn([U EXCEPT !.r.submitting = TRUE], "submitAnswer",
               ReviewCurrentQuestion(U.r).id, "Review.handleSubmit",
               [NoCap EXCEPT !.idx = U.r.currentQuestionIndex,
                             !.len = Len(U.r.reviewQuestions)])

\* QuestionScreen.handleSubmit (QuestionScreen.tsx lines 51-78): the answer
\* is graded against sampleQuestion, no request is made; the alert of its
\* guard has no handler
QScreenHandleSubmit(q) ==
  IF q.selectedAnswer = NoAnswer
    THEN q
    ELSE LET correct == q.selectedAnswer = sampleQuestion.correctAnswer
         IN [q EXCEPT !.isCorrect = IF correct THEN "true" ELSE "false",
                      !.showExplanation = TRUE,
                      !.alerts = Append(@, [correct |-> correct])]

(* ------------------------- the caller resumes ------------------------- *)
\* App.checkAuthStatus after getProfile (lines 55-66)
CheckAuthStatusResume(U, t, res) ==
  IF res.ok
    THEN loadUserStats(setCurrentScreen([U EXCEPT !.a.currentUser = res.val.user],
                                        "home"))
    ELSE setCurrentScreen(U, "auth")

\* App.loadUserStats after getUserStats (lines 111-127)
LoadUserStatsResume(U, t, res) ==
  IF res.ok THEN [U EXCEPT !.a.stats = StatsFrom(res.val)] ELSE U

\* App.navigateToQuestion after generateQuestion (lines 138-145)
NavigateToQuestionResume(U, t, res) ==
  LET U1 == IF res.ok
              THEN [U EXCEPT !.a.currentQuestion = res.val]
              ELSE setCurrentScreen(
                     [U EXCEPT !.a.notice = "Failed to load question. Please try again."],
                     "home")
  IN [U1 EXCEPT !.a.loading = FALSE]

\* variant: the explanation is shown whatever became of submitAnswer
HandleSubmitShowsAlways(U, t, res) ==
  [U EXCEPT !.a.showExplanation = TRUE, !.a.loading = FALSE]

\* App.handleSubmit after submitAnswer (lines 178-203)
HandleSubmitResume(U, t, res) ==
  LET U1 == IF res.ok
              THEN [U EXCEPT !.a.showExplanation = TRUE,
                             !.a.alert = [st |-> "timer", type |-> t.cap.type,
                                          user |-> t.cap.user]]
              ELSE [U EXCEPT !.a.notice = "Failed to submit answer. Please try again."]
  IN [U1 EXCEPT !.a.loading = FALSE]

\* ReviewScreen.loadReviewQuestions after getMissedQuestions (lines 284-300)
LoadReviewQuestionsResume(U, t, res) ==
  LET U1 == IF ~res.ok
              THEN [U EXCEPT !.a.notice = "Failed to load review questions."]
              ELSE IF Len(res.val) = 0
                THEN [U EXCEPT !.r.reviewComplete = TRUE]
                ELSE [U EXCEPT !.r.reviewQuestions = res.val]
  IN [U1 EXCEPT !.r.loading = FALSE]

\* ReviewScreen.handleSubmit after submitAnswer (lines 314-349)
ReviewSubmitResume(U, t, res) ==
  LET scheduled == [st |-> "timer", idx |-> t.cap.idx, len |-> t.cap.len]
      U1 == IF res.ok
              THEN [U EXCEPT !.r.showExplanation = TRUE,
                             !.r.alert = IF U.r.alert.st = "none"
                                           THEN scheduled ELSE @,
                             !.r.queued = IF U.r.alert.st = "none"
                                            THEN @ ELSE scheduled]
              ELSE [U EXCEPT !.a.notice = "Failed to submit answer"]
  IN [U1 EXCEPT !.r.submitting = FALSE]

\* a call of a ReviewScreen that is no longer mounted resumes: only its
\* alerts show
UnmountedReviewResume(U, t, res) ==
  IF t.op # "submitAnswer" THEN U
  ELSE IF res.ok THEN [U EXCEPT !.a.notice = "Review result"]
  ELSE [U EXCEPT !.a.notice = "Failed to submit answer"]

\* the 'Logout' button of App.handleLogout's dialog, after logout (lines
\* 87-103)
HandleLogoutResume(U, t, res) ==
  IF res.ok
    THEN [setCurrentScreen([U EXCEPT !.a.currentUser = NoUser], "auth")
            EXCEPT !.a.stats = InitialStats]
    ELSE U

\* the message of the alert in AuthScreen.handleSubmit's catch (lines
\* 93-105)
AuthErrorMessage(error) ==
  IF MessageIncludes(error, 409)
    THEN "User with this email or username already exists"
  ELSE IF MessageIncludes(error, Unauthorized)
    THEN "Invalid email or password"
  ELSE IF MessageIncludes(error, 400)
    THEN "Please check your input and try again"
  ELSE "Something went wrong. Please try again."

\* AuthScreen.handleSubmit after login or register (lines 80-108); the
\* alert it shows has no handler
AuthSubmitResume(U, t, res) ==
  IF res.ok
    THEN handleAuthSuccess(
           [U EXCEPT !.a.notice = IF t.op = "login" THEN "Welcome back!"
                                  ELSE "Account created successfully!"],
           res.val.user)
    ELSE [U EXCEPT !.a.notice = AuthErrorMessage(res.err)]

Resume(U, t, res) ==
  CASE t.caller = "App.checkAuthStatus" -> CheckAuthStatusResume(U, t, res)
    [] t.caller = "App.handleLogout" -> HandleLogoutResume(U, t, res)
    [] t.caller \in {"Auth.handleSubmit", "Auth.unmounted"} ->
         AuthSubmitResume(U, t, res)
    [] t.caller = "App.loadUserStats" -> LoadUserStatsResume(U, t, res)
    [] t.caller = "App.navigateToQuestion" -> NavigateToQuestionResume(U, t, res)
    [] t.caller = "App.handleSubmit" -> HandleSubmitResume(U, t, res)
    [] t.caller = "Review.loadReviewQuestions" -> LoadReviewQuestionsResume(U, t, res)
    [] t.caller = "Review.handleSubmit" -> ReviewSubmitResume(U, t, res)
    [] OTHER -> UnmountedReviewResume(U, t, res)

Apply(U) ==
  /\ app' = U.a
  /\ review' = U.r
  /\ tasks' = U.ts
  /\ UNCHANGED qscreen

\* The Facade call in slot i ends with res.  A call of the sequential
\* client stays visible as "returned" until the client takes the result; a
\* screen's handler resumes at once.
Deliver(i, t, res) ==
  IF t.caller = "client"
    THEN /\ tasks' = [tasks EXCEPT ![i] = [t EXCEPT !.pc = "returned", !.res = res]]
         /\ Quiet
    ELSE /\ Apply(Resume([a |-> app, r |-> review,
                          ts |-> [tasks EXCEPT ![i] = FreeTask]], t, res))
         /\ prev' = [prev EXCEPT !.caller = t.caller, !.net = t.net, !.ok = res.ok]

(* --------------------------- Session Facade --------------------------- *)
\* generateQuestion's catch: fall back when no credential is cached now
FallsBack(tok) == ~isAuthenticated(tok)

\* variant: logout has no try/catch around its request
LogoutRethrows(i, t, err) ==
  /\ token' = token
  /\ Deliver(i, t, Fail(err))

\* logout, lines 172-177: the failure is logged, removeToken() follows
LogoutCatch(i, t, err) ==
  /\ token' = Null
  /\ tasks' = [tasks EXCEPT ![i] = Removing([t EXCEPT !.res = Ok(NoVal)], "rmLogout")]
  /\ Quiet

\* variant: neither getProfile nor checkAuthStatus has a catch
GetProfileRethrows(i, t, err) ==
  /\ token' = token
  /\ Deliver(i, t, Fail(err))

\* getProfile, lines 183-189: remove the token when the message holds
\* '401', then rethrow; checkAuthStatus, lines 98-102, catches what
\* getProfile throws, removes the token and returns false
GetProfileCatch(i, t, err) ==
  IF MessageIncludes(err, Unauthorized)
    THEN /\ token' = Null
         /\ tasks' = [tasks EXCEPT ![i] = Removing([t EXCEPT !.res = Fail(err)], "rmProfile")]
         /\ Quiet
    ELSE IF t.op = "checkAuthStatus"
      THEN /\ token' = Null
           /\ tasks' = [tasks EXCEPT ![i] =
                          Removing([t EXCEPT !.res = Ok([value |-> FALSE])], "rmCheck")]
           /\ Quiet
      ELSE /\ token' = token
           /\ Deliver(i, t, Fail(err))

\* generateQuestion, lines 213-219
GenerateQuestionCatch(i, t, err) ==
  /\ token' = token
  /\ IF FallsBack(token)
       THEN Deliver(i, t, Ok(getSampleQuestion(t.arg)))
       ELSE Deliver(i, t, Fail(err))

\* variant: getUserStats lets the failure through
GetUserStatsRethrows(i, t, err) ==
  /\ token' = token
  /\ Deliver(i, t, Fail(err))

\* getUserStats, lines 239-254
GetUserStatsCatch(i, t, err) ==
  /\ token' = token
  /\ Deliver(i, t, Ok(FallbackStats))

\* variant: getMissedQuestions lets the failure through
GetMissedQuestionsRethrows(i, t, err) ==
  /\ token' = token
  /\ Deliver(i, t, Fail(err))

\* getMissedQuestions, lines 260-263
GetMissedQuestionsCatch(i, t, err) ==
  /\ token' = token
  /\ Deliver(i, t, Ok(<<>>))

\* variant: an answer to a fallback question is graded without the server
\* when the request fails
PropagateOrGrade(i, t, err) ==
  /\ token' = token
  /\ IF t.op = "submitAnswer" /\ t.arg \in {sampleQuestions[k].id : k \in DOMAIN sampleQuestions}
       THEN Deliver(i, t, Ok([correct |-> TRUE]))
       ELSE Deliver(i, t, Fail(err))

\* register, login, updateProfile, changePassword, submitAnswer: no catch
Propagate(i, t, err) ==
  /\ token' = token
  /\ Deliver(i, t, Fail(err))

\* The request of the call in slot i was rejected with err: the catch
\* block of the operation, or the rejection of its caller.
OnReject(i, t, err) ==
  CASE t.op = "logout" -> LogoutCatch(i, t, err)
    [] t.op \in {"getProfile", "checkAuthStatus"} -> GetProfileCatch(i, t, err)
    [] t.op = "generateQuestion" -> GenerateQuestionCatch(i, t, err)
    [] t.op = "getUserStats" -> GetUserStatsCatch(i, t, err)
    [] t.op = "getMissedQuestions" -> GetMissedQuestionsCatch(i, t, err)
    [] OTHER -> Propagate(i, t, err)

\* variant: no operation saves or removes anything after its request
OnResolveNoSave(i, t, body) ==
  /\ token' = token
  /\ Deliver(i, t, Ok(body))

\* The request of the call in slot i returned the parsed body.
OnResolve(i, t, body) ==
  CASE t.op \in {"login", "register"} ->
         /\ token' = body.token
         /\ tasks' = [tasks EXCEPT ![i] = [t EXCEPT !.pc = "save", !.res = Ok(body)]]
         /\ Quiet
    [] t.op = "logout" ->
         /\ token' = Null
         /\ tasks' = [tasks EXCEPT ![i] = Removing([t EXCEPT !.res = Ok(NoVal)], "rmLogout")]
         /\ Quiet
    [] t.op = "checkAuthStatus" ->
         /\ token' = token
         /\ Deliver(i, t, Ok([value |-> TRUE]))
    [] OTHER ->
         /\ token' = token
         /\ Deliver(i, t, Ok(body))

(* ------------------------------ actions ------------------------------- *)
\* fetch() of the call in slot i settles
NetRespond(i) ==
  /\ tasks[i].pc = "fetch"
  /\ \E o \in {OkOutcome} \cup FailureOutcomes :
       LET t == [tasks[i] EXCEPT !.net = o]
       IN IF o.k = "ok"
            THEN \E body \in Bodies(t.op, t.arg) : OnResolve(i, t, body)
            ELSE IF ClearsCredential(o)
              THEN /\ token' = Null
                   /\ tasks' = [tasks EXCEPT ![i] = Removing(t, "rm401")]
                   /\ Quiet
              ELSE OnReject(i, t, ErrorOf(o))
  /\ UNCHANGED <<stored, loadPc, loadVal>>

\* variant: a rejection of the storage primitive is raised to the caller
StorageSettleRaises(i) ==
  /\ tasks[i].pc \in {"rm401", "rmProfile", "rmCheck", "rmLogout", "save"}
  /\ \E done \in BOOLEAN :
       LET t == [tasks[i] EXCEPT !.sfail = @ \/ ~done]
       IN /\ stored' = IF ~done THEN stored
                       ELSE IF t.pc = "save" THEN t.res.val.token ELSE Null
          /\ token' = token
          /\ Deliver(i, t, IF done THEN t.res ELSE Fail(TransportError))
  /\ UNCHANGED <<loadPc, loadVal>>

\* the storage primitive awaited by the call in slot i settles: setItem of
\* saveToken, removeItem of removeToken; a rejection is caught and logged
StorageSettle(i) ==
  /\ tasks[i].pc \in {"rm401", "rmProfile", "rmCheck", "rmLogout", "save"}
  /\ \E done \in BOOLEAN :
       LET t == [tasks[i] EXCEPT !.sfail = @ \/ ~done]
       IN /\ stored' = IF ~done THEN stored
                       ELSE IF t.pc = "save" THEN t.res.val.token ELSE Null
          /\ CASE t.pc = "rm401" -> OnReject(i, t, ErrorOf(t.net))
               [] t.pc = "rmProfile" /\ t.op = "checkAuthStatus" ->
                    /\ token' = Null
                    /\ tasks' = [tasks EXCEPT ![i] =
                          Removing([t EXCEPT !.res = Ok([value |-> FALSE])], "rmCheck")]
                    /\ Quiet
               [] OTHER ->
                    /\ token' = token
                    /\ Deliver(i, t, t.res)
  /\ UNCHANGED <<loadPc, loadVal>>

\* loadToken(): AsyncStorage.getItem reads the entry, or rejects
LoadRead ==
  /\ loadPc = "getItem"
  /\ \E done \in BOOLEAN :
       /\ loadPc' = IF done THEN "resume" ELSE "rejected"
       /\ loadVal' = IF done THEN stored ELSE Null
  /\ prev' = Forget(prev)
  /\ UNCHANGED <<token, stored, tasks, app, review, qscreen>>

\* loadToken() resumes: the value read is assigned to this.token; a
\* rejection is caught and logged
LoadResume ==
  /\ loadPc \in {"resume", "rejected"}
  /\ token' = IF loadPc = "resume" THEN loadVal ELSE token
  /\ loadPc' = "done"
  /\ prev' = Forget(prev)
  /\ UNCHANGED <<stored, loadVal, tasks, app, review, qscreen>>

(* ------------------------ the sequential client ----------------------- *)
\* A caller that awaits each Facade call before it makes the next one.
ClientOps ==
  {<<op, "">> : op \in {"register", "login", "logout", "getProfile",
                         "checkAuthStatus", "updateProfile", "changePassword",
                         "getUserStats", "getMissedQuestions"}}
  \cup {<<"generateQuestion", ty>> : ty \in RequestedTypes}
  \cup {<<"submitAnswer", id>> : id \in {"q1", "sample-weaken-1"}}

Call ==
  /\ \A j \in TaskIds : tasks[j].pc = "free"
  /\ \E c \in ClientOps :
       tasks' = [tasks EXCEPT ![1] = NewTask(c[1], c[2], "client")]
  /\ UNCHANGED <<token, stored, loadPc, loadVal, prev, app, review, qscreen>>

Return ==
  /\ tasks[1].pc = "returned"
  /\ tasks[1].caller = "client"
  /\ LET t == tasks[1]
         saved == t.op \in {"login", "register"} /\ t.res.ok
     IN prev' = [prev EXCEPT
                   !.saved = saved /\ t.ld,
                   !.cleared = \/ t.net = StatusOutcome(Unauthorized) /\ t.ld
                               \/ prev.cleared /\ ~saved]
  /\ tasks' = [tasks EXCEPT ![1] = FreeTask]
  /\ UNCHANGED <<token, stored, loadPc, loadVal, app, review, qscreen>>

(* --------------------------- specification ---------------------------- *)
\* The state once the module is loaded: the constructor has called
\* loadToken(), which awaits getItem; an earlier run of the application may
\* have left a credential in storage (the first one stands for any).
Init ==
  /\ token = Null
  /\ stored \in {Null, Lowest(Creds)}
  /\ loadPc = "getItem"
  /\ loadVal = Null
  /\ tasks = [i \in TaskIds |-> FreeTask]
  /\ prev = [saved |-> FALSE, cleared |-> FALSE, caller |-> "none",
             net |-> NoOutcome, ok |-> FALSE]
  /\ app = AppInit
  /\ review = ReviewInit
  /\ qscreen = QScreenInit

Next ==
  \/ Call
  \/ Return
  \/ \E i \in TaskIds : NetRespond(i)
  \/ \E i \in TaskIds : StorageSettle(i)
  \/ LoadRead
  \/ LoadResume

Spec == Init /\ [][Next]_vars

\* The runs of the client in which AsyncStorage never rejects.
StorageWorks ==
  /\ loadPc' # "rejected"
  /\ \A i \in TaskIds : ~tasks'[i].sfail
NextStorageWorks ==
  \/ Call /\ StorageWorks
  \/ Return /\ StorageWorks
  \/ \E i \in TaskIds : NetRespond(i) /\ StorageWorks
  \/ \E i \in TaskIds : StorageSettle(i) /\ StorageWorks
  \/ LoadRead /\ StorageWorks
  \/ LoadResume /\ StorageWorks
SpecStorageWorks == Init /\ [][NextStorageWorks]_vars

(* --------------------------- the user's steps ------------------------- *)
Here == [a |-> app, r |-> review, ts |-> tasks]
UserStep ==
  /\ UNCHANGED apiVars
  /\ prev' = Forget(prev)
HasSlot == FreeSlots(tasks) # {}
Registered(user) == user # NoUser /\ user # GuestId

\* A button of a screen can be pressed: no Alert, which is modal, is on
\* top of it.  The storage read of the constructor's loadToken is over
\* before the user's first press.
CanPress ==
  /\ loadPc = "done"
  /\ app.notice = "none"
  /\ app.alert.st # "shown"
  /\ review.alert.st # "shown"

\* the category buttons the user presses, of the four of the home screen
HomeCategories == {"strengthen", "weaken"}

\* App's mount effect: App.checkAuthStatus up to its await (lines 47-61)
AppMount ==
  /\ app.currentScreen = "loading"
  /\ \A i \in TaskIds : tasks[i].caller # "App.checkAuthStatus"
  /\ IF isAuthenticated(token)
       THEN /\ HasSlot
            /\ Apply(Spawn(Here, "getProfile", "", "App.checkAuthStatus", NoCap))
       ELSE Apply(setCurrentScreen(Here, "auth"))
  /\ UserStep

\* AuthScreen.handleGuestMode (lines 122-130)
AuthGuest ==
  /\ app.currentScreen = "auth" /\ CanPress
  /\ Apply(handleAuthSuccess(Here, GuestId))
  /\ UserStep

\* a category button of the home screen (App.tsx lines 405-457)
HomeCategory ==
  /\ app.currentScreen = "home" /\ CanPress /\ ~app.loading /\ HasSlot
  /\ \E ty \in HomeCategories : Apply(navigateToQuestion(Here, ty))
  /\ UserStep

\* App.navigateToReview (lines 158-160, 496)
HomeReview ==
  /\ app.currentScreen = "home" /\ CanPress /\ HasSlot
  /\ Apply(setCurrentScreen(Here, "review"))
  /\ UserStep

\* the back and 'Back to Menu' buttons of the question screen (App.tsx
\* lines 272, 349)
QuestionBack ==
  /\ app.currentScreen = "question" /\ CanPress
  /\ Registered(app.currentUser) => HasSlot
  /\ Apply(navigateToHome(Here, app.currentUser))
  /\ UserStep

\* variant: App.handleAnswerSelect without its guard
handleAnswerSelectAlways(a, answer) ==
  [a EXCEPT !.selectedAnswer = answer]

\* App.handleAnswerSelect (lines 162-165)
handleAnswerSelect(a, answer) ==
  IF a.showExplanation THEN a ELSE [a EXCEPT !.selectedAnswer = answer]

\* an option button of the question screen, disabled while the explanation
\* is shown or a call is pending (lines 299-304)
QuestionSelect ==
  /\ app.currentScreen = "question" /\ CanPress
  /\ app.currentQuestion # NoQuestion
  /\ ~(app.showExplanation \/ app.loading)
  /\ \E answer \in Answers :
       Apply([Here EXCEPT !.a = handleAnswerSelect(@, answer)])
  /\ UserStep

\* App.handleSubmit through the submit button (lines 167-182, 319-330)
QuestionSubmit ==
  /\ app.currentScreen = "question" /\ CanPress /\ HasSlot
  /\ app.currentQuestion # NoQuestion /\ ~app.showExplanation
  /\ ~(app.selectedAnswer = NoAnswer \/ app.loading)
  /\ app.alert.st = "none"
  /\ Apply(handleSubmit(Here))
  /\ UserStep

\* 'Next Question' of the footer (lines 332-338)
QuestionNext ==
  /\ app.currentScreen = "question" /\ CanPress /\ HasSlot
  /\ app.currentQuestion # NoQuestion /\ app.showExplanation
  /\ Apply(navigateToQuestion(Here, app.currentQuestion.type))
  /\ UserStep

\* the 500 ms of App.handleSubmit's setTimeout are over (lines 186-197)
AlertFire ==
  /\ app.alert.st = "timer"
  /\ Apply([Here EXCEPT !.a.alert.st = "shown"])
  /\ UserStep

\* 'Next Question' of the result alert (line 193)
AlertNext ==
  /\ app.alert.st = "shown" /\ app.notice = "none" /\ HasSlot
  /\ Apply(navigateToQuestion([Here EXCEPT !.a.alert = NoAlert], app.alert.type))
  /\ UserStep

\* 'Back to Menu' of the result alert (line 194)
AlertHome ==
  /\ app.alert.st = "shown" /\ app.notice = "none"
  /\ Registered(app.alert.user) => HasSlot
  /\ Apply(navigateToHome([Here EXCEPT !.a.alert = NoAlert], app.alert.user))
  /\ UserStep

\* an alert without handlers is dismissed
DismissNotice ==
  /\ app.notice # "none"
  /\ Apply([Here EXCEPT !.a.notice = "none"])
  /\ UserStep

\* App.handleSubmit called while its guard holds (nothing is selected, or
\* no question is current), as the disabled prop of the submit button is
\* not what the guard relies on
QuestionSubmitEmpty ==
  /\ app.currentScreen = "question" /\ CanPress /\ HasSlot
  /\ app.selectedAnswer = NoAnswer \/ app.currentQuestion = NoQuestion
  /\ Apply(handleSubmit(Here))
  /\ UserStep

(* ------------------------- the review screen -------------------------- *)
\* what ReviewScreen renders (HomeScreen.tsx lines 381-429)
ReviewView(r) ==
  IF r.loading THEN "loading"
  ELSE IF r.reviewComplete \/ Len(r.reviewQuestions) = 0 THEN "complete"
  ELSE "question"

ReviewPresents ==
  /\ app.currentScreen = "review" /\ CanPress
  /\ ReviewView(review) = "question"

\* the two branches of 'Next Question' (lines 329-338 and 529-536), with
\* the index and the length of the render whose closure is called
ReviewAdvance(r, currentQuestionIndex, length) ==
  IF currentQuestionIndex < length - 1
    THEN [r EXCEPT !.currentQuestionIndex = currentQuestionIndex + 1,
                   !.selectedAnswer = NoAnswer,
                   !.showExplanation = FALSE]
    ELSE [r EXCEPT !.reviewComplete = TRUE]

\* onBack is App.navigateToHome (App.tsx line 360); the loading view has
\* no button
ReviewBack ==
  /\ app.currentScreen = "review" /\ CanPress
  /\ ReviewView(review) # "loading"
  /\ Registered(app.currentUser) => HasSlot
  /\ Apply(navigateToHome(Here, app.currentUser))
  /\ UserStep

\* ReviewScreen.handleAnswerSelect (lines 303-306)
ReviewHandleAnswerSelect(r, answer) ==
  IF r.showExplanation THEN r ELSE [r EXCEPT !.selectedAnswer = answer]

\* an option button of the review screen, disabled while the explanation
\* is shown (lines 482-487)
ReviewSelect ==
  /\ ReviewPresents /\ ~review.showExplanation
  /\ \E answer \in Answers :
       Apply([Here EXCEPT !.r = ReviewHandleAnswerSelect(@, answer)])
  /\ UserStep

\* ReviewScreen.handleSubmit through the submit button (lines 308-317)
ReviewSubmit ==
  /\ ReviewPresents /\ ~review.showExplanation /\ HasSlot
  /\ ~(review.selectedAnswer = NoAnswer \/ review.submitting)
  /\ review.queued.st = "none"
  /\ Apply(ReviewHandleSubmit(Here))
  /\ UserStep

\* the footer's 'Next Question' / 'Complete Review' (lines 527-542)
ReviewNext ==
  /\ ReviewPresents /\ review.showExplanation
  /\ Apply([Here EXCEPT !.r = ReviewAdvance(@, review.currentQuestionIndex,
                                            Len(review.reviewQuestions))])
  /\ UserStep

\* the 500 ms of ReviewScreen.handleSubmit's setTimeout are over
ReviewAlertFire ==
  /\ review.alert.st = "timer"
  /\ Apply([Here EXCEPT !.r.alert.st = "shown"])
  /\ UserStep

\* 'Next Question' of the result alert (lines 327-339)
ReviewAlertNext ==
  /\ review.alert.st = "shown" /\ app.notice = "none"
  /\ Apply([Here EXCEPT !.r = [ReviewAdvance(@, review.alert.idx, review.alert.len)
                                 EXCEPT !.alert = review.queued,
                                        !.queued = NoReviewAlert]])
  /\ UserStep

\* ReviewScreen.handleSubmit called while its guard holds (nothing is
\* selected, or no question is current), as the disabled prop of the
\* submit button is not what the guard relies on
ReviewSubmitEmpty ==
  /\ app.currentScreen = "review" /\ CanPress /\ HasSlot
  /\ review.selectedAnswer = NoAnswer \/ ReviewCurrentQuestion(review) = NoQuestion
  /\ Apply(ReviewHandleSubmit(Here))
  /\ UserStep

(* ------------------------- the application ---------------------------- *)
\* A session of the practice and review flows: the user enters as a guest,
\* or as the user whose credential an earlier run left in storage.
NextApp ==
  \/ AppMount
  \/ AuthGuest
  \/ HomeCategory
  \/ HomeReview
  \/ QuestionBack
  \/ QuestionSelect
  \/ QuestionSubmit
  \/ QuestionNext
  \/ AlertFire
  \/ AlertNext
  \/ AlertHome
  \/ DismissNotice
  \/ ReviewBack
  \/ ReviewSelect
  \/ ReviewSubmit
  \/ ReviewNext
  \/ ReviewAlertFire
  \/ ReviewAlertNext
  \/ \E i \in TaskIds : /\ NetRespond(i)
                          /\ Len(review'.reviewQuestions) <= SessionMissed
  \/ \E i \in TaskIds : StorageSettle(i)
  \/ LoadRead
  \/ LoadResume

SpecApp == Init /\ [][NextApp]_vars

\* AuthScreen's submit button (AuthScreen.tsx lines 72-80, 228-231): it is
\* disabled while a handleSubmit of this AuthScreen awaits
AuthSubmit ==
  /\ app.currentScreen = "auth" /\ CanPress /\ HasSlot
  /\ \A i \in TaskIds : tasks[i].caller # "Auth.handleSubmit"
  /\ \E op \in {"login", "register"} :
       Apply(Spawn(Here, op, "", "Auth.handleSubmit", NoCap))
  /\ UserStep

\* the 'Sign Up' button the home screen shows a guest (App.tsx lines
\* 390-394)
HomeSignUp ==
  /\ app.currentScreen = "home" /\ CanPress /\ app.currentUser = GuestId
  /\ Apply(setCurrentScreen(Here, "auth"))
  /\ UserStep

\* the 'Logout' button of the home screen and the 'Logout' button of the
\* dialog App.handleLogout shows (App.tsx lines 77-87, 385-389), up to the
\* await of logout
HomeLogout ==
  /\ app.currentScreen = "home" /\ CanPress /\ HasSlot
  /\ Registered(app.currentUser)
  /\ Apply(Spawn(Here, "logout", "", "App.handleLogout", NoCap))
  /\ UserStep

\* A session of the account flow: users sign in, register, enter as a
\* guest and log out, one after another.
NextSession ==
  \/ AppMount
  \/ AuthGuest
  \/ AuthSubmit
  \/ HomeSignUp
  \/ HomeLogout
  \/ DismissNotice
  \/ \E i \in TaskIds : NetRespond(i)
  \/ \E i \in TaskIds : StorageSettle(i)
  \/ LoadRead
  \/ LoadResume

SpecSession == Init /\ [][NextSession]_vars

\* A session of the review flow alone, over the lists of up to MaxMissed
\* questions the server may answer getMissedQuestions with.
NextReview ==
  \/ AppMount
  \/ AuthGuest
  \/ HomeReview
  \/ DismissNotice
  \/ ReviewBack
  \/ ReviewSelect
  \/ ReviewSubmit
  \/ ReviewNext
  \/ ReviewAlertFire
  \/ ReviewAlertNext
  \/ \E i \in TaskIds : NetRespond(i)
  \/ \E i \in TaskIds : StorageSettle(i)
  \/ LoadRead
  \/ LoadResume

SpecReview == Init /\ [][NextReview]_vars

(* ------------------------- the question screen ------------------------ *)
MaxAlerts == 2
NoParam == ""

QScreenStep ==
  /\ prev' = Forget(prev)
  /\ UNCHANGED <<token, stored, loadPc, loadVal, tasks, app, review>>

QScreenCanPress == qscreen.mounted /\ ~qscreen.shown

\* the navigator renders QuestionScreen with a route that may carry a
\* questionType (lines 32-47)
QScreenMount ==
  /\ ~qscreen.mounted /\ ~qscreen.shown
  /\ \E param \in Categories \cup {NoParam} :
       qscreen' = [QScreenInit EXCEPT
                     !.mounted = TRUE,
                     !.questionType = IF param = NoParam THEN "strengthen" ELSE param,
                     !.alerts = qscreen.alerts]
  /\ QScreenStep

\* QuestionScreen.handleAnswerSelect (lines 46-49)
QScreenHandleAnswerSelect(q, answer) ==
  IF q.showExplanation THEN q ELSE [q EXCEPT !.selectedAnswer = answer]

\* an option button of QuestionScreen, disabled while the explanation is
\* shown (lines 134-140)
QScreenSelect ==
  /\ QScreenCanPress /\ ~qscreen.showExplanation
  /\ \E answer \in Options :
       qscreen' = QScreenHandleAnswerSelect(qscreen, answer)
  /\ QScreenStep

\* QuestionScreen.handleSubmit through the submit button (lines 51-78,
\* 159-166): the answer is graded against sampleQuestion, no request is made
QScreenSubmit ==
  /\ QScreenCanPress /\ ~qscreen.showExplanation
  /\ qscreen.selectedAnswer # NoAnswer
  /\ Len(qscreen.alerts) < MaxAlerts
  /\ qscreen' = QScreenHandleSubmit(qscreen)
  /\ QScreenStep

\* 'Next Question' of the footer (lines 168-174)
QScreenNext ==
  /\ QScreenCanPress /\ qscreen.showExplanation
  /\ qscreen' = generateNewQuestion(qscreen)
  /\ QScreenStep

\* the back button and 'Back to Menu' of the footer (lines 119-124, 175-180)
QScreenBack ==
  /\ QScreenCanPress
  /\ qscreen' = goBack(qscreen)
  /\ QScreenStep

\* the 500 ms of handleSubmit's setTimeout are over (lines 62-77)
QScreenAlertFire ==
  /\ qscreen.alerts # <<>> /\ ~qscreen.shown
  /\ qscreen' = [qscreen EXCEPT !.shown = TRUE]
  /\ QScreenStep

\* 'Next Question' of the result alert (lines 67-70)
QScreenAlertNext ==
  /\ qscreen.shown
  /\ qscreen' = [generateNewQuestion(qscreen) EXCEPT
                   !.alerts = Tail(@), !.shown = FALSE]
  /\ QScreenStep

\* 'Back to Menu' of the result alert (lines 71-74)
QScreenAlertBack ==
  /\ qscreen.shown
  /\ qscreen' = [goBack(qscreen) EXCEPT !.alerts = Tail(@), !.shown = FALSE]
  /\ QScreenStep

\* QuestionScreen.handleSubmit called while nothing is selected
QScreenSubmitEmpty ==
  /\ QScreenCanPress
  /\ qscreen.selectedAnswer = NoAnswer
  /\ qscreen' = QScreenHandleSubmit(qscreen)
  /\ QScreenStep

NextQuestionScreen ==
  \/ QScreenMount
  \/ QScreenSelect
  \/ QScreenSubmit
  \/ QScreenNext
  \/ QScreenBack
  \/ QScreenAlertFire
  \/ QScreenAlertNext
  \/ QScreenAlertBack

SpecQuestionScreen == Init /\ [][NextQuestionScreen]_vars

\* The submit handlers with their guards, in a guest's session on a device
\* with nothing persisted, or in a QuestionScreen of its own: the
\* navigator renders either App or QuestionScreen, which imports no
\* ApiService.
AppIdle ==
  /\ app = AppInit /\ loadPc = "getItem"
  /\ \A i \in TaskIds : tasks[i].pc = "free"
QScreenIdle == qscreen = QScreenInit
NextHandlers ==
  \/ QScreenIdle /\ AppMount
  \/ QScreenIdle /\ AuthGuest
  \/ QScreenIdle /\ HomeCategory
  \/ QScreenIdle /\ HomeReview
  \/ QScreenIdle /\ QuestionBack
  \/ QScreenIdle /\ QuestionSelect
  \/ QScreenIdle /\ QuestionSubmit
  \/ QScreenIdle /\ QuestionSubmitEmpty
  \/ QScreenIdle /\ QuestionNext
  \/ QScreenIdle /\ AlertFire
  \/ QScreenIdle /\ AlertNext
  \/ QScreenIdle /\ AlertHome
  \/ QScreenIdle /\ DismissNotice
  \/ QScreenIdle /\ ReviewBack
  \/ QScreenIdle /\ ReviewSelect
  \/ QScreenIdle /\ ReviewSubmit
  \/ QScreenIdle /\ ReviewSubmitEmpty
  \/ QScreenIdle /\ ReviewNext
  \/ QScreenIdle /\ ReviewAlertFire
  \/ QScreenIdle /\ ReviewAlertNext
  \/ \E i \in TaskIds : /\ NetRespond(i)
                          /\ Len(review'.reviewQuestions) <= SessionMissed
  \/ \E i \in TaskIds : StorageSettle(i)
  \/ QScreenIdle /\ LoadRead
  \/ LoadResume
  \/ AppIdle /\ QScreenMount
  \/ QScreenSelect
  \/ QScreenSubmit
  \/ QScreenSubmitEmpty
  \/ QScreenNext
  \/ QScreenBack
  \/ QScreenAlertFire
  \/ QScreenAlertNext
  \/ QScreenAlertBack

InitHandlers == Init /\ stored = Null
SpecHandlers == InitHandlers /\ [][NextHandlers]_vars

(* ============================ properties ============================== *)
Done(t) == t.pc = "returned"
Rejected401(t) == t.net = StatusOutcome(Unauthorized)
SampleIds ==
  {"sample-strengthen-1", "sample-weaken-1", "sample-assumption-1", "sample-flaw-1"}

\* C1: a login that succeeds leaves isAuthenticated() true at its return;
\* a logout never raises and at its return isAuthenticated() is false and
\* the 'auth_token' entry is absent, whatever became of POST /auth/logout.
\* (Calls made once the constructor's load has finished; the entry is
\* absent when removeItem did not reject.)
C1_LoginThenLogout ==
  \A i \in TaskIds :
    LET t == tasks[i]
    IN /\ Done(t) /\ t.op = "login" /\ t.res.ok /\ t.ld => isAuthenticated(token)
       /\ Done(t) /\ t.op = "logout" => t.res.ok
       /\ Done(t) /\ t.op = "logout" /\ t.ld => ~isAuthenticated(token)
       /\ Done(t) /\ t.op = "logout" /\ t.ld /\ ~t.sfail => stored = Null

\* a logout that follows a successful login, sent the credential, and
\* whose network call failed, has returned
C1_Witness ==
  \E i \in TaskIds :
    /\ Done(tasks[i]) /\ tasks[i].op = "logout" /\ tasks[i].ld
    /\ prev.saved /\ tasks[i].hdr.present /\ ~tasks[i].sfail
    /\ tasks[i].net = TransportOutcome

\* C2: once a request answered 401 has failed, the cached credential is
\* null and the persisted entry removed (removeItem not rejecting), and
\* every request built afterwards, until a login or register succeeds,
\* carries no Authorization header.
C2_UnauthorizedClears ==
  \A i \in TaskIds :
    LET t == tasks[i]
    IN /\ Rejected401(t) /\ t.pc # "rm401" /\ t.ld => token = Null
       /\ Rejected401(t) /\ t.pc # "rm401" /\ t.ld /\ ~t.sfail => stored = Null
       /\ prev.cleared /\ t.nfetch > 0 => ~t.hdr.present

\* a request that carried a credential was answered 401 and has failed
C2_Witness ==
  \E i \in TaskIds :
    /\ Done(tasks[i]) /\ Rejected401(tasks[i]) /\ tasks[i].hdr.present
    /\ tasks[i].op = "submitAnswer" /\ tasks[i].ld /\ ~tasks[i].sfail

\* C3: generateQuestion called with no credential cached never raises when
\* its request fails, and for each of the four categories returns the
\* sample question of the requested type.
C3_GuestFallback ==
  \A i \in TaskIds :
    LET t == tasks[i]
    IN Done(t) /\ t.op = "generateQuestion" /\ ~t.hdr.present /\ t.ld
         /\ t.net \in FailureOutcomes
       => /\ t.res.ok
          /\ t.arg \in Categories =>
               t.res.val.type = t.arg /\ t.res.val.id \in SampleIds

C3_Witness ==
  \E i \in TaskIds :
    /\ Done(tasks[i]) /\ tasks[i].op = "generateQuestion" /\ tasks[i].ld
    /\ ~tasks[i].hdr.present /\ tasks[i].arg = "weaken"
    /\ tasks[i].net = TransportOutcome /\ tasks[i].res.val.type = "weaken"

\* C4: generateQuestion called with a credential cached raises whenever
\* its request fails, 401 included, and returns no fallback question.
C4_AuthenticatedFailureRaises ==
  \A i \in TaskIds :
    LET t == tasks[i]
    IN Done(t) /\ t.op = "generateQuestion" /\ t.hdr.present /\ t.ld
         /\ t.net \in FailureOutcomes
       => ~t.res.ok

\* C5: getUserStats never raises, and on every failure of its request it
\* returns exactly the all-zero record.
C5_StatsDefault ==
  \A i \in TaskIds :
    LET t == tasks[i]
    IN Done(t) /\ t.op = "getUserStats"
       => /\ t.res.ok
          /\ t.net \in FailureOutcomes =>
               t.res.val =
                 [questionsAnswered |-> 0, accuracy |-> 0, currentStreak |-> 0,
                  longestStreak |-> 0, correctAnswers |-> 0,
                  accuracyByType |-> [strengthen |-> 0, weaken |-> 0,
                                      assumption |-> 0, flaw |-> 0]]

C5_Witness ==
  \E i \in TaskIds :
    /\ Done(tasks[i]) /\ tasks[i].op = "getUserStats"
    /\ tasks[i].net = StatusOutcome(500) /\ tasks[i].res.ok
    /\ tasks[i].res.val.questionsAnswered = 0

\* C7: the fallback question depends on the category alone, and every
\* category outside the four yields the question of 'strengthen'.
C7_FallbackByCategory ==
  \A i \in TaskIds :
    LET t == tasks[i]
        expected ==
          CASE t.arg = "weaken" ->
                 [id |-> "sample-weaken-1", type |-> "weaken", correct_answer |-> "C"]
            [] t.arg = "assumption" ->
                 [id |-> "sample-assumption-1", type |-> "assumption",
                  correct_answer |-> "D"]
            [] t.arg = "flaw" ->
                 [id |-> "sample-flaw-1", type |-> "flaw", correct_answer |-> "E"]
            [] OTHER ->
                 [id |-> "sample-strengthen-1", type |-> "strengthen",
                  correct_answer |-> "B"]
    IN Done(t) /\ t.op = "generateQuestion" /\ t.res.ok /\ t.net \in FailureOutcomes
       => t.res.val = expected

\* C9: a request that fails ends in an error, never in a value: the
\* AuthenticationFailed error for 401, the HTTP error with the status for
\* any other status, the transport error when fetch rejects; seen through
\* the operations that pass the Gateway's result on unchanged.
PassesOn ==
  {"register", "login", "getProfile", "updateProfile", "changePassword",
   "submitAnswer"}
C9_ErrorKinds ==
  \A i \in TaskIds :
    LET t == tasks[i]
    IN Done(t) /\ t.op \in PassesOn
       => /\ t.res.ok <=> t.net.k = "ok"
          /\ ~t.res.ok => /\ t.res.val = [v |-> "none"]
                          /\ t.res.err.kind \in
                               {"AuthenticationFailed", "HttpError", "TransportError"}
          /\ t.res.err.kind = "AuthenticationFailed" <=> Rejected401(t)
          /\ t.res.err.kind = "HttpError" <=>
               t.net.k = "status" /\ t.net.s # Unauthorized
          /\ t.res.err.kind = "HttpError" => t.res.err.status = t.net.s
          /\ t.net.k = "transport" => t.res.err.kind = "TransportError"

C9_Witness ==
  \E i \in TaskIds :
    /\ Done(tasks[i]) /\ tasks[i].op = "submitAnswer"
    /\ tasks[i].net = StatusOutcome(500)
    /\ tasks[i].res.err = [kind |-> "HttpError", status |-> 500]

\* C10: a call of request() issues one fetch and never a second one; when
\* the answer is 401 it removes the credential, once; on every other
\* outcome it leaves the cached and the persisted credential as they were.
\* (login and register save after a success, logout and checkAuthStatus
\* remove on their own account: their steps are left to C1.)
OwnCredentialOps == {"register", "login", "logout", "checkAuthStatus"}
C10_Step(i) ==
  LET t == tasks[i]
      u == tasks'[i]
  IN /\ u.nfetch <= 1
     /\ t.pc = "fetch" /\ u.pc # "fetch" /\ ~Rejected401(u)
          /\ (t.op \notin OwnCredentialOps \/ (t.op \in {"register", "login"} /\ ~u.res.ok))
        => token' = token /\ stored' = stored /\ u.nrm = 0
     /\ t.pc = "fetch" /\ Rejected401(u)
        => token' = Null /\ u.pc = "rm401" /\ u.nrm = 1 /\ stored' = stored
     /\ t.pc = "rm401" /\ u.pc # "rm401" /\ t.op \notin OwnCredentialOps
        => /\ u.pc = "returned" /\ u.nrm = 1 /\ u.nfetch = 1
           /\ token' = token /\ stored' \in {stored, Null}
C10_SingleShot == [][\A i \in TaskIds : C10_Step(i)]_vars

\* a request that carried a credential failed with a status other than 401
\* and the credential is still cached and persisted
C10_Witness ==
  \E i \in TaskIds :
    /\ Done(tasks[i]) /\ tasks[i].op = "updateProfile"
    /\ tasks[i].net = StatusOutcome(500) /\ tasks[i].hdr.present
    /\ token = tasks[i].hdr.cred /\ stored = token /\ tasks[i].nfetch = 1

\* C6: getMissedQuestions never raises and returns the empty list on every
\* failure of its request; when the fetch of the review screen's mount
\* effect yields an empty list, the screen is in 'review complete' as soon
\* as loading ends, and it never presents a question.
C6_MissedDefault ==
  /\ prev.caller = "Review.loadReviewQuestions"
     => /\ prev.ok
        /\ review.mounted /\ ~review.loading
        /\ prev.net \in FailureOutcomes
           => /\ review.reviewQuestions = <<>>
              /\ review.reviewComplete
  /\ review.mounted /\ ~review.loading /\ Len(review.reviewQuestions) = 0
     => /\ review.reviewComplete
        /\ ReviewView(review) = "complete"
        /\ ~ReviewPresents

\* the getMissedQuestions of the mount effect has just ended, its request
\* answered 500, and the screen shows 'review complete'
C6_Witness ==
  /\ prev.caller = "Review.loadReviewQuestions"
  /\ prev.net = StatusOutcome(500)
  /\ app.currentScreen = "review" /\ review.reviewComplete
  /\ ReviewView(review) = "complete"

\* C8: in the practice flow and in the review flow the explanation comes
\* to be shown only in the step in which a submitAnswer of the flow's
\* handleSubmit succeeds; the step in which it fails leaves the explanation
\* flag, the selected answer and the current question as they were and
\* issues no submit request.
SubmitsInFlight(ts) ==
  {i \in TaskIds : ts[i].pc # "free" /\ ts[i].op = "submitAnswer"}
C8_Step ==
  LET practice == prev'.caller = "App.handleSubmit"
      reviewing == prev'.caller = "Review.handleSubmit"
  IN /\ practice /\ prev'.ok => app'.showExplanation
     /\ reviewing /\ prev'.ok => review'.showExplanation
     /\ app'.showExplanation /\ ~app.showExplanation => practice /\ prev'.ok
     /\ review'.showExplanation /\ ~review.showExplanation => reviewing /\ prev'.ok
     /\ practice /\ ~prev'.ok
        => /\ app'.showExplanation = app.showExplanation
           /\ app'.selectedAnswer = app.selectedAnswer
           /\ app'.currentQuestion = app.currentQuestion
           /\ app'.alert = app.alert
           /\ SubmitsInFlight(tasks') \subseteq SubmitsInFlight(tasks)
           /\ \A i \in SubmitsInFlight(tasks') : tasks'[i] = tasks[i]
     /\ reviewing /\ ~prev'.ok
        => /\ review'.showExplanation = review.showExplanation
           /\ review'.selectedAnswer = review.selectedAnswer
           /\ review'.reviewQuestions = review.reviewQuestions
           /\ review'.currentQuestionIndex = review.currentQuestionIndex
           /\ review'.alert = review.alert
           /\ SubmitsInFlight(tasks') \subseteq SubmitsInFlight(tasks)
           /\ \A i \in SubmitsInFlight(tasks') : tasks'[i] = tasks[i]
C8_SubmitOutcome == [][C8_Step]_vars

\* a submitAnswer of the practice flow has just failed: the question and
\* the selection are still there, the explanation is not shown
C8_Witness ==
  /\ prev.caller = "App.handleSubmit" /\ ~prev.ok
  /\ prev.net = TransportOutcome
  /\ app.currentScreen = "question" /\ app.currentQuestion # NoQuestion
  /\ app.selectedAnswer # NoAnswer /\ ~app.showExplanation
  /\ app.notice = "Failed to submit answer. Please try again."

\* C11: a register or login whose request succeeds has cached the returned
\* credential and written it to storage when it returns (written when
\* setItem did not reject), so isAuthenticated() is true and getToken() is
\* that credential; one whose request fails raises the Gateway's error as
\* it is and saves nothing: no step of it caches or persists a credential.
\* (Calls made once the constructor's load has finished.)
SavingOps == {"register", "login"}
C11_Step(i) ==
  LET t == tasks[i]
      u == tasks'[i]
      raised ==
        CASE u.net.k = "status" /\ u.net.s = 401 ->
               [kind |-> "AuthenticationFailed", status |-> 0]
          [] u.net.k = "status" -> [kind |-> "HttpError", status |-> u.net.s]
          [] OTHER -> [kind |-> "TransportError", status |-> 0]
  IN /\ u.op \in SavingOps /\ u.pc = "returned" /\ t.pc # "returned" /\ u.ld
        => IF u.net.k = "ok"
             THEN /\ u.res.ok /\ t.pc = "save"
                  /\ token' = u.res.val.token /\ token' # Null
                  /\ ~u.sfail => stored' = u.res.val.token
             ELSE /\ ~u.res.ok /\ u.res.err = raised
                  /\ u.res.val = [v |-> "none"]
     /\ t.op \in SavingOps /\ t.pc # "returned" /\ u # t /\ u.net.k # "ok"
        => /\ u.pc # "save"
           /\ token' \in {token, Null}
           /\ stored' \in {stored, Null}
C11_SaveOnSuccess == [][\A i \in TaskIds : C11_Step(i)]_vars

\* a login made with a credential cached has returned another one, now
\* cached and persisted
C11_Witness ==
  \E i \in TaskIds :
    /\ Done(tasks[i]) /\ tasks[i].op = "login" /\ tasks[i].ld
    /\ tasks[i].res.ok /\ tasks[i].hdr.present
    /\ tasks[i].res.val.token # tasks[i].hdr.cred
    /\ token = tasks[i].res.val.token /\ stored = token

\* C12: checkAuthStatus never raises; called with no credential cached it
\* returns false and issues no request; called with one it issues the
\* profile request, returns true exactly when that request succeeds, and
\* on every failure returns false with the credential cleared (the
\* persisted entry removed when removeItem did not reject).
C12_Step(i) ==
  LET t == tasks[i]
      u == tasks'[i]
  IN /\ t.pc = "free" /\ u.op = "checkAuthStatus"
        => IF token = Null
             THEN /\ u.pc = "returned" /\ u.nfetch = 0
                  /\ u.res.ok /\ u.res.val = [value |-> FALSE]
             ELSE /\ u.pc = "fetch" /\ u.nfetch = 1
                  /\ u.hdr.present /\ u.hdr.cred = token
     /\ u.op = "checkAuthStatus" /\ u.pc = "returned"
        => /\ u.res.ok /\ u.nfetch <= 1
           /\ u.res.val.value <=> u.net.k = "ok"
           /\ u.nfetch = 1 /\ u.net.k # "ok" /\ u.ld
              => /\ token' = Null
                 /\ ~u.sfail => stored' = Null
C12_CheckAuthStatus == [][\A i \in TaskIds : C12_Step(i)]_vars

\* a checkAuthStatus made with a credential, its request answered 500, has
\* returned false and the credential is gone
C12_Witness ==
  \E i \in TaskIds :
    /\ Done(tasks[i]) /\ tasks[i].op = "checkAuthStatus" /\ tasks[i].ld
    /\ tasks[i].hdr.present /\ tasks[i].net = StatusOutcome(500)
    /\ tasks[i].res = Ok([value |-> FALSE])
    /\ token = Null /\ stored = Null

\* C13: a storage primitive that rejects is never raised to the caller of
\* saveToken, removeToken or loadToken.  After a save whose setItem
\* rejected the cached credential is the saved one; after a clear whose
\* removeItem rejected it is null; a load whose getItem rejected leaves it
\* as it was, null when nothing was saved meanwhile.  (Saves and clears of
\* calls made once the constructor's load has finished.)
C13_Step(i) ==
  LET t == tasks[i]
      u == tasks'[i]
      rejected == u.sfail /\ ~t.sfail /\ u.ld
  IN /\ rejected /\ t.pc = "save"
        => /\ token' = t.res.val.token /\ token' # Null
           /\ stored' = stored
           /\ u.pc = "returned" /\ u.res = t.res /\ u.res.ok
     /\ rejected /\ t.pc \in {"rm401", "rmProfile", "rmCheck", "rmLogout"}
        => /\ token' = Null
           /\ stored' = stored
           /\ u.pc \in {"returned", "rmCheck", "rmLogout"}
           /\ u.res.err.kind = "TransportError" => u.net.k \in {"transport", "body"}
           /\ t.pc \in {"rmCheck", "rmLogout"} => u.pc = "returned" /\ u.res = t.res /\ u.res.ok
C13_Load ==
  loadPc = "rejected" /\ loadPc' = "done"
  => /\ token' = token
     /\ token = Null => token' = Null
     /\ tasks' = tasks /\ stored' = stored
C14_FailedVerificationDestroys ==
  prev.caller = "App.checkAuthStatus" /\ ~prev.ok
  => app.currentScreen = "auth" /\ token = Null

\* C15: a credential persisted at process start survives the restart: when
\* App.checkAuthStatus reads the cache, the constructor's load has completed,
\* so the check leaves the loading screen for the auth screen without
\* verifying the profile only if the load found nothing it could read.
C15_Mount ==
  /\ app.currentScreen = "loading" /\ app'.currentScreen = "auth"
  /\ tasks' = tasks
  /\ stored # Null
  => loadPc = "done"
C15_LoadBeforeRead == [][C15_Mount]_vars

\* C15, second half: a load that completes after a login or register has
\* cached a credential leaves that credential in the cache.
C15_Late ==
  loadPc # "done" /\ loadPc' = "done" /\ token # Null => token' = token
C15_LateLoadKeepsSaved == [][C15_Late]_vars

\* C16: each controller instance (the practice flow of App, the mounted
\* ReviewScreen) has at most one generateQuestion or submitAnswer call in
\* flight at any time.
InFlightOf(callers) ==
  {i \in TaskIds : tasks[i].pc # "free" /\ tasks[i].caller \in callers}
C16_OneInFlight ==
  /\ Cardinality(InFlightOf({"App.navigateToQuestion", "App.handleSubmit"})) <= 1
  /\ Cardinality(InFlightOf({"Review.handleSubmit"})) <= 1

\* C17: a mounted ReviewScreen becomes 'review complete' exactly when its
\* fetch returned no questions or its last question, graded, is advanced
\* past; from then on reviewComplete stays true and the index, the
\* selection and the explanation flag of that instance stay as they are.
C17_Step ==
  LET same == review.mounted /\ review'.mounted
      fetched == prev'.caller = "Review.loadReviewQuestions" /\ prev'.ok
      answered == review.alert.st = "shown" /\ review'.alert.st = "none"
      last == /\ Len(review.reviewQuestions) > 0
              /\ review.currentQuestionIndex = Len(review.reviewQuestions) - 1
  IN /\ same /\ review.reviewComplete
        => /\ review'.reviewComplete
           /\ review'.currentQuestionIndex = review.currentQuestionIndex
           /\ review'.selectedAnswer = review.selectedAnswer
           /\ review'.showExplanation = review.showExplanation
     /\ same /\ ~review.reviewComplete /\ review'.reviewComplete
        => \/ fetched /\ review'.reviewQuestions = <<>>
           \/ last /\ review.showExplanation
     /\ same /\ fetched /\ review'.reviewQuestions = <<>> => review'.reviewComplete
     /\ same /\ answered /\ review.alert.idx >= review.alert.len - 1
        => review'.reviewComplete
C17_CompleteIsTerminal == [][C17_Step]_vars

\* C18: while the current user is the guest (id 0) no credential is cached,
\* and the practice flow never shows a guest the 'Failed to load question'
\* error.
FailedToLoad == "Failed to load question. Please try again."
C18_GuestAlwaysServed ==
  app.currentUser = GuestId
  => token = Null /\ app.notice # FailedToLoad
C18_GuestNeverFails ==
  app.currentUser = GuestId => app.notice # FailedToLoad

\* C19: a controller turns its explanation on, and with it schedules its
\* result alert, only in the step in which a submitAnswer call it made for
\* the question it shows returns a value: in the practice flow, in the
\* review flow and in QuestionScreen.
Graded(caller, id) ==
  /\ prev'.caller = caller /\ prev'.ok
  /\ \E i \in TaskIds :
       /\ tasks[i].pc # "free" /\ tasks'[i].pc = "free"
       /\ tasks[i].op = "submitAnswer" /\ tasks[i].caller = caller
       /\ tasks[i].arg = id
C19_Practice ==
  app'.showExplanation /\ ~app.showExplanation
  => Graded("App.handleSubmit", app'.currentQuestion.id)
C19_Review ==
  review'.showExplanation /\ ~review.showExplanation
  => /\ review'.currentQuestionIndex < Len(review'.reviewQuestions)
     /\ Graded("Review.handleSubmit",
               review'.reviewQuestions[review'.currentQuestionIndex + 1].id)
C19_QuestionScreen ==
  qscreen'.showExplanation /\ ~qscreen.showExplanation
  => Graded("QuestionScreen.handleSubmit", sampleQuestion.id)
C19_GradedAfterSubmit ==
  [][C19_Practice /\ C19_Review /\ C19_QuestionScreen]_vars
C19_PracticeGraded == [][C19_Practice]_vars
C19_ReviewGraded == [][C19_Review]_vars

\* C20: once the user is back on the home screen with the practice
\* controller's state discarded (no current question, no selected answer,
\* explanation not shown, no result alert), the state stays discarded while
\* the home screen is shown, whatever call completes.
Discarded(a) ==
  /\ a.currentQuestion = NoQuestion
  /\ a.selectedAnswer = NoAnswer
  /\ ~a.showExplanation
  /\ a.alert.st = "none"
C20_Step ==
  app.currentScreen = "home" /\ app'.currentScreen = "home" /\ Discarded(app)
  => Discarded(app')
C20_StaysDiscarded == [][C20_Step]_vars

\* C21: in every state a controller reaches with its explanation shown,
\* handleAnswerSelect called with any option leaves the controller's state
\* as it is: the selected answer, the explanation flag and the current
\* question are unchanged.  This holds for the practice flow, the review
\* flow and QuestionScreen.
C21_Practice ==
  app.showExplanation => \A answer \in Answers : handleAnswerSelect(app, answer) = app
C21_Review ==
  review.showExplanation
  => \A answer \in Answers : ReviewHandleAnswerSelect(review, answer) = review
C21_QuestionScreen ==
  qscreen.showExplanation
  => \A answer \in Options : QScreenHandleAnswerSelect(qscreen, answer) = qscreen
C21_SelectWhenGraded == C21_Practice /\ C21_Review /\ C21_QuestionScreen

\* the practice flow shows the explanation of a question answered A while
\* B can still be chosen
C21_Witness ==
  /\ app.currentScreen = "question" /\ app.showExplanation
  /\ app.currentQuestion # NoQuestion
  /\ app.selectedAnswer = "A"

\* C22: in the practice flow a generateQuestion that returns a question
\* while the question screen is loading leaves the screen presenting that
\* question, with no selection and no explanation; one that fails shows
\* the error and leaves the home screen, not loading, with no current
\* question.
Generated(ok) ==
  /\ app.currentScreen = "question" /\ app.loading
  /\ prev'.caller = "App.navigateToQuestion" /\ prev'.ok = ok
C22_Success ==
  Generated(TRUE)
  => /\ app'.currentScreen = "question"
     /\ app'.currentQuestion # NoQuestion
     /\ \E i \in TaskIds :
          /\ tasks[i].caller = "App.navigateToQuestion" /\ tasks'[i].pc = "free"
          /\ tasks[i].pc # "free"
          /\ app'.currentQuestion.type \in {tasks[i].arg, "strengthen"}
     /\ app'.selectedAnswer = NoAnswer
     /\ ~app'.showExplanation
C22_Failure ==
  Generated(FALSE)
  => /\ app'.notice = FailedToLoad
     /\ app'.currentScreen = "home"
     /\ ~app'.loading
     /\ app'.currentQuestion = NoQuestion
C22_GenerateOutcome == [][C22_Success /\ C22_Failure]_vars
C22_GenerateSuccess == [][C22_Success]_vars
C22_GenerateFailure == [][C22_Failure]_vars

\* C23: in the practice flow 'Next Question', of the footer of a graded
\* question or of the result alert, issues exactly one generateQuestion
\* request, for the category of the graded question (the one shown, for the
\* footer; the one whose submit scheduled the alert, for the alert), and in
\* the same run resets the selection and the explanation flag.
NewRequests(op) ==
  {i \in TaskIds : tasks[i].pc = "free" /\ tasks'[i].pc # "free" /\ tasks'[i].op = op}
Advanced(questionType) ==
  /\ Cardinality(NewRequests("generateQuestion")) = 1
  /\ \A i \in NewRequests("generateQuestion") :
       /\ tasks'[i].arg = questionType
       /\ tasks'[i].caller = "App.navigateToQuestion"
       /\ tasks'[i].pc = "fetch" /\ tasks'[i].nfetch = 1
  /\ \A i \in TaskIds \ NewRequests("generateQuestion") :
       [tasks'[i] EXCEPT !.caller = tasks[i].caller] = tasks[i]
  /\ app'.selectedAnswer = NoAnswer
  /\ ~app'.showExplanation
  /\ app'.loading /\ app'.currentScreen = "question"
C23_Footer ==
  /\ app.currentScreen = "question" /\ app.showExplanation
  /\ app.alert.st # "shown"
  /\ NewRequests("generateQuestion") # {}
  => Advanced(app.currentQuestion.type)
C23_Alert ==
  /\ app.alert.st = "shown" /\ app'.alert.st = "none"
  /\ app'.currentScreen = "question"
  => Advanced(app.alert.type)
C23_Captured ==
  /\ \A i \in NewRequests("submitAnswer") :
       tasks'[i].caller = "App.handleSubmit"
       => /\ tasks'[i].cap.type = app.currentQuestion.type
          /\ tasks'[i].arg = app.currentQuestion.id
  /\ prev'.caller = "App.handleSubmit" /\ prev'.ok
     => \E i \in TaskIds :
          /\ tasks[i].caller = "App.handleSubmit" /\ tasks'[i].pc = "free"
          /\ app'.alert.type = tasks[i].cap.type /\ app'.alert.st = "timer"
C23_AdvanceSameCategory == [][C23_Footer /\ C23_Alert /\ C23_Captured]_vars

\* 'Next Question' of the footer was pressed before the result alert of the
\* graded question: the request for the same category is pending, the old
\* question still shown without selection
C23_Witness ==
  /\ app.currentScreen = "question" /\ app.loading
  /\ app.currentQuestion # NoQuestion /\ app.alert.st = "timer"
  /\ app.selectedAnswer = NoAnswer /\ ~app.showExplanation
  /\ \E i \in TaskIds :
       /\ tasks[i].pc = "fetch" /\ tasks[i].caller = "App.navigateToQuestion"
       /\ tasks[i].arg = app.currentQuestion.type
       /\ tasks[i].arg = app.alert.type

\* C24: every request is built with 'Content-Type: application/json', and
\* with an Authorization header exactly when a credential is cached at that
\* moment; the header's value is then 'Bearer ' followed by that credential.
Built(i) == tasks'[i].pc = "fetch" /\ tasks'[i].nfetch = tasks[i].nfetch + 1
C24_Step(i) ==
  Built(i)
  => LET h == tasks'[i].hdr
     IN /\ h.contentType = "application/json"
        /\ h.present <=> token # Null
        /\ h.present => h.scheme = "Bearer" /\ h.cred = token
        /\ ~h.present => h.scheme = "" /\ h.cred = Null
C24_RequestHeaders == [][\A i \in TaskIds : C24_Step(i)]_vars

\* a submitAnswer request is awaiting fetch with the cached credential as
\* its bearer
C24_Witness ==
  \E i \in TaskIds :
    /\ tasks[i].pc = "fetch" /\ tasks[i].op = "submitAnswer"
    /\ tasks[i].hdr.contentType = "application/json"
    /\ tasks[i].hdr.present /\ tasks[i].hdr.scheme = "Bearer"
    /\ tasks[i].hdr.cred = token /\ token # Null

\* C25: in a run in which AsyncStorage never rejects, whenever no loadToken,
\* saveToken or removeToken is in progress the cached credential equals the
\* value persisted under 'auth_token'.
TokenStoreBusy ==
  \/ loadPc # "done"
  \/ \E i \in TaskIds :
       tasks[i].pc \in {"save", "rm401", "rmProfile", "rmCheck", "rmLogout"}
C25_CacheMatchesStore == ~TokenStoreBusy => token = stored

\* C26: each controller refines the lifecycle machine idle -> loading ->
\* presented -> selected -> graded -> (idle or the next question): every
\* step changes the controller's phase along one of these edges or by a
\* failure or navigation back to idle, or leaves it as it is; graded is
\* entered from selected only.
Lifecycle ==
  {<<"idle", "loading">>, <<"loading", "presented">>,
   <<"presented", "selected">>, <<"selected", "graded">>,
   <<"graded", "idle">>, <<"graded", "loading">>, <<"graded", "presented">>,
   <<"loading", "idle">>, <<"presented", "idle">>, <<"selected", "idle">>}
PracticePhase(a) ==
  IF a.showExplanation THEN "graded"
  ELSE IF a.currentScreen # "question" THEN "idle"
  ELSE IF a.loading /\ a.selectedAnswer = NoAnswer THEN "loading"
  ELSE IF a.currentQuestion = NoQuestion THEN "idle"
  ELSE IF a.selectedAnswer = NoAnswer THEN "presented"
  ELSE "selected"
ReviewPhase(r) ==
  IF ~r.mounted THEN "idle"
  ELSE IF r.loading THEN "loading"
  ELSE IF r.reviewComplete \/ Len(r.reviewQuestions) = 0 THEN "idle"
  ELSE IF r.showExplanation THEN "graded"
  ELSE IF r.selectedAnswer = NoAnswer THEN "presented"
  ELSE "selected"
QScreenPhase(q) ==
  IF ~q.mounted THEN "idle"
  ELSE IF q.showExplanation THEN "graded"
  ELSE IF q.selectedAnswer = NoAnswer THEN "presented"
  ELSE "selected"
Refines(from, to) == from = to \/ <<from, to>> \in Lifecycle
C26_Practice == Refines(PracticePhase(app), PracticePhase(app'))
C26_Review == Refines(ReviewPhase(review), ReviewPhase(review'))
C26_QuestionScreen == Refines(QScreenPhase(qscreen), QScreenPhase(qscreen'))
C26_RefinesLifecycle ==
  [][C26_Practice /\ C26_Review /\ C26_QuestionScreen]_vars
C26_PracticeRefines == [][C26_Practice]_vars
C26_ReviewRefines == [][C26_Review]_vars
C26_QuestionScreenRefines == [][C26_QuestionScreen]_vars

\* C27: a getProfile whose request is answered 401 removes the credential
\* exactly once, in request(); its own catch removes nothing.  After any
\* other failure getProfile removes nothing and rethrows the error of
\* request().  (Calls made once the constructor's load has finished.)
C27_Step(i) ==
  LET t == tasks[i]
      u == tasks'[i]
      returns == u.op = "getProfile" /\ u.pc = "returned" /\ t.pc # "returned" /\ u.ld
  IN /\ u.op = "getProfile" => u.nrm <= 1 /\ u.pc # "rmProfile"
     /\ returns /\ u.net = StatusOutcome(Unauthorized)
        => /\ u.nrm = 1 /\ t.pc = "rm401"
           /\ u.res = Fail(AuthenticationFailed)
           /\ token' = Null
           /\ ~u.sfail => stored' = Null
     /\ returns /\ u.net.k # "ok" /\ u.net # StatusOutcome(Unauthorized)
        => /\ u.nrm = 0 /\ t.pc = "fetch"
           /\ token' = token /\ stored' = stored
           /\ ~u.res.ok /\ u.res.val = NoVal
           /\ u.res.err = IF u.net.k = "status"
                             THEN [kind |-> "HttpError", status |-> u.net.s]
                             ELSE [kind |-> "TransportError", status |-> 0]
C28_Step(i) ==
  LET t == tasks[i]
      u == tasks'[i]
      returns == u.op = "submitAnswer" /\ u.pc = "returned" /\ t.pc # "returned"
  IN /\ t.pc = "free" /\ u.op = "submitAnswer"
        => /\ u.pc = "fetch" /\ u.nfetch = 1
           /\ token' = token
     /\ returns
        => /\ u.nfetch = 1
           /\ u.res.ok <=> u.net.k = "ok"
           /\ u.res.ok => u.res.val \in {[correct |-> b] : b \in BOOLEAN}
           /\ u.net = StatusOutcome(Unauthorized)
              => u.res = Fail(AuthenticationFailed) /\ t.pc = "rm401"
           /\ u.net.k = "status" /\ u.net.s # Unauthorized
              => u.res = Fail([kind |-> "HttpError", status |-> u.net.s])
           /\ u.net.k \in {"transport", "body"}
              => u.res = Fail([kind |-> "TransportError", status |-> 0])
           /\ u.net # StatusOutcome(Unauthorized) => t.pc = "fetch" /\ u.nrm = 0
C28_SubmitDelegates == [][\A i \in TaskIds : C28_Step(i)]_vars

\* the answer to a fallback question was sent without a credential and the
\* server's 500 has been thrown to the caller
C28_Witness ==
  \E i \in TaskIds :
    /\ Done(tasks[i]) /\ tasks[i].op = "submitAnswer"
    /\ tasks[i].arg = "sample-weaken-1"
    /\ ~tasks[i].hdr.present
    /\ tasks[i].net = StatusOutcome(500)
    /\ tasks[i].res = Fail([kind |-> "HttpError", status |-> 500])



\* C29: a credential saved by a successful login or register is never
\* removed by the 401 of a request that was issued before that login: when
\* the request of a call that began after the constructor's load is
\* answered 401 while the cached credential is another one than the one
\* the request carried, the cached credential stays.
C29_Step(i) ==
  LET t == tasks[i]
      u == tasks'[i]
  IN t.pc = "fetch" /\ u.pc = "rm401" /\ t.ld
       /\ token # Null /\ token # t.hdr.cred
     => token' = token
C29_RejectionSparesNewer == [][\A i \in TaskIds : C29_Step(i)]_vars

\* C30: after a logout has completed and reset the displayed statistics to
\* all zeros, they stay all zero until another non-guest user
\* authenticates: the logout's reset leaves them all zero, and from a state
\* in which nobody or a guest is the current user and the statistics shown
\* are all zero, a step after which still no registered user is current
\* leaves them all zero (a getUserStats in flight since before the logout
\* writes nothing back).
C30_Step ==
  /\ prev'.caller = "App.handleLogout" /\ prev'.ok =>
        app'.stats = InitialStats /\ app'.currentUser = NoUser
  /\ app.stats = InitialStats /\ ~Registered(app.currentUser)
        /\ ~Registered(app'.currentUser)
      => app'.stats = InitialStats
C30_StatsStayZero == [][C30_Step]_vars

\* C31: whenever the home or the question screen shows a registered user
\* and no Facade call is pending, a credential is cached.
C31_RegisteredHasCredential ==
  /\ Registered(app.currentUser)
  /\ app.currentScreen \in {"home", "question"}
  /\ \A i \in TaskIds : tasks[i].pc = "free"
  => isAuthenticated(token)

\* C32: in the review flow the selection cannot change between the issue of
\* a submitAnswer request and the receipt of its result: a step that leaves
\* a submit of the mounted ReviewScreen pending leaves the selected answer
\* as it is, and the step in which the result arrives shows the explanation
\* with the selection unchanged.
C32_Step(i) ==
  LET pending == tasks[i].caller = "Review.handleSubmit"
  IN /\ pending /\ tasks'[i].caller = "Review.handleSubmit"
          /\ tasks'[i].cap = tasks[i].cap
        => review'.selectedAnswer = review.selectedAnswer
     /\ pending /\ tasks'[i].pc = "free" /\ prev'.caller = "Review.handleSubmit"
          /\ prev'.ok
        => /\ review'.showExplanation
           /\ review'.selectedAnswer = review.selectedAnswer
C32_SelectionFixedWhileSubmitting == [][\A i \in TaskIds : C32_Step(i)]_vars

\* C33: in the review flow over a fetched sequence of N >= 1 questions the
\* question index stays within 0..N-1, it changes only by rising by exactly
\* one, and every press of 'Next Question' on a result alert raises it by
\* exactly one or sets review complete, also when the footer's button was
\* used for the same graded question before.
C33_Step ==
  LET same == review.mounted /\ review'.mounted
      N == Len(review'.reviewQuestions)
      answered == review.alert.st = "shown" /\ review'.alert.st # "shown"
  IN /\ review'.mounted /\ N > 0 => review'.currentQuestionIndex \in 0..(N - 1)
     /\ same /\ review'.currentQuestionIndex # review.currentQuestionIndex
        => review'.currentQuestionIndex = review.currentQuestionIndex + 1
     /\ same /\ answered
        => \/ review'.currentQuestionIndex = review.currentQuestionIndex + 1
           \/ review'.reviewComplete
C33_AdvanceByOne == [][C33_Step]_vars

\* C34: when the review flow has reached 'review complete' over N >= 1
\* fetched questions, the 'Questions Reviewed' count of the completion view
\* (the value of currentQuestionIndex, HomeScreen.tsx line 412) equals N.
QuestionsReviewed(r) == r.currentQuestionIndex
C34_ReviewedCountIsN ==
  /\ review.mounted /\ ~review.loading /\ review.reviewComplete
  /\ Len(review.reviewQuestions) >= 1
  => QuestionsReviewed(review) = Len(review.reviewQuestions)

\* C35: when the backend rejects a login with HTTP 401 the auth screen's
\* alert says 'Invalid email or password', and when it rejects a register
\* with 409 the alert says the user already exists; neither is reported
\* with the generic message.
AuthCallers == {"Auth.handleSubmit", "Auth.unmounted"}
C35_Step(i) ==
  LET t == tasks[i]
      failed == /\ t.caller \in AuthCallers /\ t.pc # "free"
                /\ tasks'[i].pc = "free"
                /\ prev'.caller = t.caller /\ ~prev'.ok
  IN /\ failed /\ t.op = "login" /\ prev'.net = StatusOutcome(Unauthorized)
        => app'.notice = "Invalid email or password"
     /\ failed /\ t.op = "register" /\ prev'.net = StatusOutcome(409)
        => app'.notice = "User with this email or username already exists"
C35_AuthErrorReported == [][\A i \in TaskIds : C35_Step(i)]_vars

\* C36: every loading or submitting phase ends, and in the practice flow
\* loading is true whenever a generateQuestion or submitAnswer call of
\* App.navigateToQuestion or App.handleSubmit is still pending.
PracticePending ==
  \E i \in TaskIds : /\ tasks[i].pc # "free"
                     /\ tasks[i].caller \in {"App.navigateToQuestion",
                                             "App.handleSubmit"}
C36_LoadingWhilePending == PracticePending => app.loading

\* C37: a submit with no answer selected or with no current question
\* issues no network request and changes no controller state (selection,
\* explanation flag, current question, loading or submitting flag, review
\* index), in the practice flow, the review flow and QuestionScreen.
C37_Practice ==
  QuestionSubmitEmpty
    => /\ tasks' = tasks
       /\ [app' EXCEPT !.notice = app.notice] = app
       /\ review' = review
C37_Review ==
  ReviewSubmitEmpty => tasks' = tasks /\ review' = review /\ app' = app
C37_QuestionScreen ==
  QScreenSubmitEmpty => tasks' = tasks /\ qscreen' = qscreen
C37_EmptySubmitIsNoOp ==
  [][C37_Practice /\ C37_Review /\ C37_QuestionScreen]_vars
\* the guard of App.handleSubmit has shown its alert on a question screen
\* that has a question and no selection, with no call pending
C37_Witness ==
  /\ app.currentScreen = "question" /\ app.notice = "Please select an answer"
  /\ app.currentQuestion # NoQuestion /\ app.selectedAnswer = NoAnswer
  /\ ~app.loading /\ ~app.showExplanation
  /\ \A i \in TaskIds : tasks[i].pc = "free"

============================================================================
